---- MODULE Spec2Model ----
(***************************************************************************)
(* Face-recognition attendance system (src/app.py).                        *)
(*                                                                         *)
(* The model covers the SQLite store (tables employees and attendance),    *)
(* the in-memory face index of FaceRecognitionSystem and the request       *)
(* handlers that touch them: DatabaseManager.mark_attendance,              *)
(* FaceRecognitionSystem.add_new_employee / load_known_faces /             *)
(* recognize_faces and the delete_employee route.  Requests are served by  *)
(* concurrent threads; a step of the model is one SQL statement (with its  *)
(* commit), one read of the wall clock, or one read or write of an         *)
(* attribute of the shared face_system object.                             *)
(***************************************************************************)
EXTENDS Integers, Sequences, FiniteSets, TLC

\* ------------------------------------------------------------------ bounds
MaxNow == 2          \* the wall clock runs over 0..MaxNow
TicksPerDay == 2     \* clock ticks per calendar day
MaxRecords == 2      \* rows the attendance table may hold
MaxGallery == 3      \* enrolled people in the galleries the matcher is run on
MaxCount == 3        \* check-ins per day in the tables the summary is run on

\* ----------------------------------------------------------- value domains
Threads == {"t1", "t2"}          \* request-handling threads
EmployeeIds == {"E1", "E2"}      \* employee_id values callers supply
\* the people who enrol: form fields and the encoding of the uploaded face
\* (1-dimensional, in tenths of the encoder's unit)
People == {[employee_id |-> "E1", name |-> "Ann", face_encoding |-> 0],
           [employee_id |-> "E2", name |-> "Bob", face_encoding |-> 8]}
Probes == {0, 8}                 \* encodings of faces seen by the camera
Widths == {640, 2048}            \* widths of the frames the camera delivers
Frames == {[width |-> w, location |-> <<10, 50, 50, 10>>, probe |-> p] :
              w \in Widths, p \in Probes}
FaceCounts == {0, 1, 2}          \* faces detected in an uploaded image
Faults == {"save", "load"}       \* where the upload of an enrolment raises
AttendanceTypes == {"check_in", "check_out"}

NoTime == -1                     \* SQL NULL in a TIMESTAMP column
NoId == "None"                   \* Python None as employee_id
Unknown == "Unknown"
NoCamera == "None"               \* Python None as face_system.camera
CameraOpened == "opened"               \* a VideoCapture whose isOpened() is True
CameraClosed == "closed"               \* a VideoCapture whose isOpened() is False
\* a frame is its width, the (top, right, bottom, left) of the face found in the
\* frame that is processed, and the encoding of that face
NoFrame == [width |-> 0, location |-> <<>>, probe |-> NoTime]
Tolerance == 6                   \* tolerance=0.6, in tenths
WindowDays == 7                  \* timedelta(days=7)
MaxWidth == 1024                 \* frames wider than this are downscaled

MsgCheckIn == "Check-in recorded successfully"
MsgCheckOut == "Check-out recorded successfully"
MsgAlready == "Attendance already recorded for today"
MsgMustCheckIn == "Must check-in first"
MsgAdded == "Employee added successfully"
MsgIdExists == "Employee ID already exists"
MsgNoFace == "No face detected in the image"
MsgMultipleFaces == "Multiple faces detected"
MsgDeleted == "Employee deleted successfully."
MsgNotFound == "Employee not found."
MsgRecognized == "recognized"
MsgRecognitionError == "Error in face recognition"
MsgSummary == "summary"
MsgCameraFailed == "Failed to initialize camera"
MsgCaptureFailed == "Failed to capture frame from camera"
MsgProcessingError == "Error processing image"
MsgUnexpected == "An unexpected error occurred while processing your request."
MsgServerError == "An error occurred on the server."

VARIABLES
    employees,              \* table employees, in rowid order
    attendance,             \* table attendance, in rowid order
    known_face_encodings,   \* face_system.known_face_encodings
    known_face_names,       \* face_system.known_face_names
    known_employee_ids,     \* face_system.known_employee_ids
    now,                    \* the wall clock read by datetime.now()
    uploads,                \* files in app.config['UPLOAD_FOLDER']
    camera,                 \* face_system.camera
    is_running,             \* face_system.is_running
    pc,                     \* each thread's position in its handler
    loc                     \* each thread's local variables

vars == <<employees, attendance, known_face_encodings, known_face_names,
          known_employee_ids, now, uploads, camera, is_running, pc, loc>>

device == <<camera, is_running>>

db == <<employees, attendance>>
index == <<known_face_encodings, known_face_names, known_employee_ids>>

\* ------------------------------------------------------------ pure helpers
\* datetime.now().date()
Date(t) == t \div TicksPerDay

\* json.dumps(face_encoding.tolist()) and np.array(json.loads(text))
EncodeJson(v) == <<"json", v>>
DecodeJson(s) == s[2]

Range(s) == {s[i] : i \in DOMAIN s}

RECURSIVE Filter(_, _, _)
\* rows of s, in order, whose column col differs from val
Filter(s, col, val) ==
    IF s = <<>> THEN <<>>
    ELSE IF Head(s)[col] = val THEN Filter(Tail(s), col, val)
         ELSE <<Head(s)>> \o Filter(Tail(s), col, val)

EmployeeIdsOf(emps) == {emps[i].employee_id : i \in DOMAIN emps}

\* the three lists get_employee_encodings returns
get_employee_encodings(emps) ==
    [encodings    |-> [i \in DOMAIN emps |-> DecodeJson(emps[i].face_encoding)],
     names        |-> [i \in DOMAIN emps |-> emps[i].name],
     employee_ids |-> [i \in DOMAIN emps |-> emps[i].employee_id]]

EmptySnapshot == [encodings |-> <<>>, names |-> <<>>, employee_ids |-> <<>>]

\* the INSERT without the UNIQUE constraint
InsertEmployeeNoUnique(emps, employee_id, name, face_encoding) ==
    [ok |-> TRUE,
     employees |-> Append(emps, [employee_id |-> employee_id, name |-> name,
                                 face_encoding |-> EncodeJson(face_encoding)])]

\* INSERT INTO employees under the UNIQUE constraint on employee_id
InsertEmployee(emps, employee_id, name, face_encoding) ==
    IF employee_id \in EmployeeIdsOf(emps)
    THEN [ok |-> FALSE, employees |-> emps]
    ELSE [ok |-> TRUE,
          employees |-> Append(emps, [employee_id |-> employee_id, name |-> name,
                                      face_encoding |-> EncodeJson(face_encoding)])]

\* SELECT * FROM attendance WHERE employee_id = ? AND date = ?, then fetchone()
SelectAttendance(att, employee_id, today) ==
    LET hits == {i \in DOMAIN att : att[i].employee_id = employee_id /\ att[i].date = today}
    IN IF hits = {} THEN <<>>
       ELSE <<att[CHOOSE i \in hits : \A j \in hits : i <= j]>>

\* UPDATE attendance SET check_out_time = ? WHERE employee_id = ? AND date = ?
UpdateCheckOut(att, employee_id, today, current_time) ==
    [i \in DOMAIN att |->
        IF att[i].employee_id = employee_id /\ att[i].date = today
        THEN [att[i] EXCEPT !.check_out_time = current_time]
        ELSE att[i]]

\* INSERT INTO attendance (employee_id, check_in_time, date)
InsertAttendance(att, employee_id, current_time, today) ==
    Append(att, [employee_id |-> employee_id, date |-> today,
                 check_in_time |-> current_time, check_out_time |-> NoTime])

\* the branch without the test of line 116: any event on no record inserts
MarkBranchNoTypeTest(att, existing_record, employee_id, attendance_type, today, current_time) ==
    IF existing_record # <<>>
    THEN IF attendance_type = "check_out" /\ existing_record[1].check_out_time = NoTime
         THEN [attendance |-> UpdateCheckOut(att, employee_id, today, current_time),
               result |-> MsgCheckOut]
         ELSE [attendance |-> att, result |-> MsgAlready]
    ELSE [attendance |-> InsertAttendance(att, employee_id, current_time, today),
          result |-> MsgCheckIn]

\* the branch without the refusal of line 114: a check_in on an existing record is
\* recorded again
MarkBranchRepeatCheckIn(att, existing_record, employee_id, attendance_type, today, current_time) ==
    IF attendance_type = "check_in"
    THEN [attendance |-> InsertAttendance(att, employee_id, current_time, today),
          result |-> MsgCheckIn]
    ELSE IF existing_record # <<>> /\ existing_record[1].check_out_time = NoTime
    THEN [attendance |-> UpdateCheckOut(att, employee_id, today, current_time),
          result |-> MsgCheckOut]
    ELSE [attendance |-> att,
          result |-> IF existing_record # <<>> THEN MsgAlready ELSE MsgMustCheckIn]

\* the branch of mark_attendance after the SELECT
MarkBranch(att, existing_record, employee_id, attendance_type, today, current_time) ==
    IF existing_record # <<>>
    THEN IF attendance_type = "check_out" /\ existing_record[1].check_out_time = NoTime
         THEN [attendance |-> UpdateCheckOut(att, employee_id, today, current_time),
               result |-> MsgCheckOut]
         ELSE [attendance |-> att, result |-> MsgAlready]
    ELSE IF attendance_type = "check_in"
         THEN [attendance |-> InsertAttendance(att, employee_id, current_time, today),
               result |-> MsgCheckIn]
         ELSE [attendance |-> att, result |-> MsgMustCheckIn]

\* DELETE FROM attendance WHERE employee_id = ?
DeleteAttendance(att, employee_id) == Filter(att, "employee_id", employee_id)

\* DELETE FROM employees WHERE employee_id = ?
DeleteEmployee(emps, employee_id) == Filter(emps, "employee_id", employee_id)

\* the transaction of delete_employee: both DELETEs, one commit; rowcount is that
\* of the DELETE FROM employees
DeleteTxn(emps, att, employee_id) ==
    [employees  |-> DeleteEmployee(emps, employee_id),
     attendance |-> DeleteAttendance(att, employee_id),
     rowcount   |-> Cardinality({i \in DOMAIN emps : emps[i].employee_id = employee_id})]

\* np.linalg.norm(known - probe, axis=1) for 1-dimensional encodings
Distance(a, b) == IF a >= b THEN a - b ELSE b - a

\* face_recognition.face_distance(known, probe)
face_distance(known, probe) == [i \in DOMAIN known |-> Distance(known[i], probe)]

\* compare_faces accepting only distances below the tolerance
compare_facesStrict(known, probe) == [i \in DOMAIN known |-> Distance(known[i], probe) < Tolerance]

\* face_recognition.compare_faces(known, probe, tolerance=0.6)
compare_faces(known, probe) == [i \in DOMAIN known |-> Distance(known[i], probe) <= Tolerance]

\* np.argmin: the first index of the smallest element (indices from 1 here)
ArgMin(d) == CHOOSE i \in DOMAIN d : \A j \in DOMAIN d : d[i] < d[j] \/ (d[i] = d[j] /\ i <= j)

\* lines 241-258 run without interruption on one probe: what recognize_faces
\* reports for it (result MsgRecognitionError when a lookup raises IndexError)
Identify(encodings, names, employee_ids, probe) ==
    LET unknown == [name |-> Unknown, employee_id |-> NoId, result |-> MsgRecognized]
        matches == compare_faces(encodings, probe)
        best    == ArgMin(face_distance(encodings, probe))
    IN IF encodings = <<>> THEN unknown
       ELSE IF ~matches[best] THEN unknown
       ELSE IF best > Len(names) \/ best > Len(employee_ids)
            THEN [unknown EXCEPT !.result = MsgRecognitionError]
            ELSE [name |-> names[best], employee_id |-> employee_ids[best],
                  result |-> MsgRecognized]

\* os.path.join(UPLOAD_FOLDER, secure_filename(f"{employee_id}_{photo.filename}")):
\* each caller uploads its photo under a file name of its own
PhotoPath(t, employee_id) == <<employee_id, t>>

\* photo.save(filepath)
SavePhoto(files, path) == files \cup {path}

\* os.remove(path) on an existing file
RemoveFile(files, path) == files \ {path}

\* a route that answers a failure without touching the file
RouteCleanupNone(files, path) == files

\* the route's answer to a failure: lines 387-388 and 396-400
RouteCleanup(files, path) == IF path \in files THEN RemoveFile(files, path) ELSE files

\* the coordinates multiplied by the scale instead of divided by it
RescaledForward(x, width) ==
    IF width <= MaxWidth THEN {x} ELSE {(x * MaxWidth) \div width}

\* int(x / scale) with scale = 1024.0 / width for a frame wider than MaxWidth and
\* 1.0 otherwise.  The quotient is truncated; where it is a whole number and the
\* scale is not a power of two, the rounding of the two float divisions decides
\* between that number and the one below it.
Rescaled(x, width) ==
    IF width <= MaxWidth THEN {x}
    ELSE LET q == (x * width) \div MaxWidth
         IN IF (x * width) % MaxWidth = 0 /\ q > 0 /\ ~(\E k \in 0..30 : 2^k = width)
            THEN {q - 1, q}
            ELSE {q}

\* lines 457-461 on one face location
RescaledRegion(location, width) ==
    {<<top, right, bottom, left>> :
        top \in Rescaled(location[1], width), right \in Rescaled(location[2], width),
        bottom \in Rescaled(location[3], width), left \in Rescaled(location[4], width)}

\* round(x, 1) of x = num / den, in tenths: a tie goes to the even digit
RoundTenths(num, den) ==
    LET q == (10 * num) \div den
        r == (10 * num) % den
    IN IF 2 * r < den THEN q
       ELSE IF 2 * r > den THEN q + 1
       ELSE IF q % 2 = 0 THEN q ELSE q + 1

\* the four SELECTs of get_attendance_summary; AVG runs over the rows of the
\* GROUP BY subquery, one for each day that has a check-in (avg_attendance in
\* tenths)
get_attendance_summary(att, emps, today) ==
    LET present_today == Cardinality({i \in DOMAIN att :
                             att[i].date = today /\ att[i].check_in_time # NoTime})
        total_employees == Len(emps)
        week_start == today - WindowDays
        rows == {i \in DOMAIN att : att[i].date >= week_start /\ att[i].check_in_time # NoTime}
        days == {att[i].date : i \in rows}
    IN [present_today   |-> present_today,
        total_employees |-> total_employees,
        absent_today    |-> total_employees - present_today,
        avg_attendance  |-> IF days = {} THEN 0
                            ELSE RoundTenths(Cardinality(rows), Cardinality(days))]

NoSummary == [present_today |-> 0, total_employees |-> 0, absent_today |-> 0,
              avg_attendance |-> 0]

\* ------------------------------------------------------------ initial state
InitLoc ==
    [op |-> "none", employee_id |-> NoId, attendance_type |-> "none",
     today |-> NoTime, current_time |-> NoTime, existing_record |-> <<>>,
     person |-> <<>>, snapshot |-> EmptySnapshot,
     probe |-> NoTime, matches |-> <<>>, best_match_index |-> 0,
     name |-> Unknown, faces |-> 0, summary |-> NoSummary,
     frame |-> NoFrame, box |-> <<>>, result |-> "none"]

\* the database file is new and FaceRecognitionSystem.__init__ has loaded it
Init ==
    /\ employees = <<>>
    /\ attendance = <<>>
    /\ known_face_encodings = <<>>
    /\ known_face_names = <<>>
    /\ known_employee_ids = <<>>
    /\ now = 0
    /\ uploads = {}
    /\ camera = NoCamera
    /\ is_running = FALSE
    /\ pc = [t \in Threads |-> "idle"]
    /\ loc = [t \in Threads |-> InitLoc]

\* what a handler leaves visible once it has computed its response
Finished(l, result) ==
    [InitLoc EXCEPT !.op = l.op, !.employee_id = l.employee_id,
                    !.attendance_type = l.attendance_type, !.today = l.today,
                    !.person = l.person, !.probe = l.probe, !.faces = l.faces,
                    !.frame = l.frame, !.result = result]

\* ------------------------------------------------------------------- clock
Tick ==
    /\ now < MaxNow
    /\ now' = now + 1
    /\ UNCHANGED <<db, index, uploads, device, pc, loc>>

\* --------------------------------------------------------- mark_attendance
\* the request arrives and line 102 reads the date
MarkStart(t, employee_id, attendance_type) ==
    /\ pc[t] = "idle"
    /\ pc' = [pc EXCEPT ![t] = "m_time"]
    /\ loc' = [loc EXCEPT ![t] = [InitLoc EXCEPT !.op = "mark",
                                     !.employee_id = employee_id,
                                     !.attendance_type = attendance_type,
                                     !.today = Date(now)]]
    /\ UNCHANGED <<db, index, now, uploads, device>>

\* line 103 reads the clock again
MarkReadTime(t) ==
    /\ pc[t] = "m_time"
    /\ pc' = [pc EXCEPT ![t] = "m_select"]
    /\ loc' = [loc EXCEPT ![t].current_time = now]
    /\ UNCHANGED <<db, index, now, uploads, device>>

\* lines 105-106
MarkSelect(t) ==
    /\ pc[t] = "m_select"
    /\ pc' = [pc EXCEPT ![t] = "m_branch"]
    /\ loc' = [loc EXCEPT ![t].existing_record =
                   SelectAttendance(attendance, loc[t].employee_id, loc[t].today)]
    /\ UNCHANGED <<db, index, now, uploads, device>>

\* lines 108-121: the write is one committed statement
MarkWrite(t) ==
    /\ pc[t] = "m_branch"
    /\ LET out == MarkBranch(attendance, loc[t].existing_record, loc[t].employee_id,
                             loc[t].attendance_type, loc[t].today, loc[t].current_time)
       IN /\ Len(out.attendance) <= MaxRecords
          /\ attendance' = out.attendance
          /\ loc' = [loc EXCEPT ![t] = Finished(loc[t], out.result)]
    /\ pc' = [pc EXCEPT ![t] = "done"]
    /\ UNCHANGED <<employees, index, now, uploads, device>>

\* -------------------------------------------------------- load_known_faces
\* line 178
LoadRead(t) ==
    /\ pc[t] = "l_read"
    /\ pc' = [pc EXCEPT ![t] = "l_encodings"]
    /\ loc' = [loc EXCEPT ![t].snapshot = get_employee_encodings(employees)]
    /\ UNCHANGED <<db, index, now, uploads, device>>

\* line 179
LoadEncodings(t) ==
    /\ pc[t] = "l_encodings"
    /\ known_face_encodings' = loc[t].snapshot.encodings
    /\ pc' = [pc EXCEPT ![t] = "l_names"]
    /\ UNCHANGED <<db, known_face_names, known_employee_ids, now, uploads, device, loc>>

\* line 180
LoadNames(t) ==
    /\ pc[t] = "l_names"
    /\ known_face_names' = loc[t].snapshot.names
    /\ pc' = [pc EXCEPT ![t] = "l_ids"]
    /\ UNCHANGED <<db, known_face_encodings, known_employee_ids, now, uploads, device, loc>>

\* line 181, then os.remove of line 210 when add_new_employee is the caller
LoadIds(t) ==
    /\ pc[t] = "l_ids"
    /\ known_employee_ids' = loc[t].snapshot.employee_ids
    /\ pc' = [pc EXCEPT ![t] = "done"]
    /\ loc' = [loc EXCEPT ![t] = Finished(loc[t],
                   IF loc[t].op = "enroll" THEN MsgAdded ELSE MsgDeleted)]
    /\ uploads' = IF loc[t].op = "enroll"
                  THEN RemoveFile(uploads, PhotoPath(t, loc[t].employee_id))
                  ELSE uploads
    /\ UNCHANGED <<db, known_face_encodings, known_face_names, now, device>>

\* line 178 raises (the database cannot be read): add_new_employee answers through
\* line 218 and the route cleans up, delete_employee answers through line 327
LoadRaises(t) ==
    /\ pc[t] = "l_read"
    /\ pc' = [pc EXCEPT ![t] = "done"]
    /\ loc' = [loc EXCEPT ![t] = Finished(loc[t],
                   IF loc[t].op = "enroll" THEN MsgProcessingError ELSE MsgServerError)]
    /\ uploads' = IF loc[t].op = "enroll"
                  THEN RouteCleanup(uploads, PhotoPath(t, loc[t].employee_id))
                  ELSE uploads
    /\ UNCHANGED <<db, index, now, device>>

\* -------------------------------------------------------- add_new_employee
\* add_new_employee without the test of line 199: the first face is enrolled
EnrollStartNoMultiCheck(t, person, faces) ==
    /\ pc[t] = "idle"
    /\ LET l == [InitLoc EXCEPT !.op = "enroll", !.employee_id = person.employee_id,
                                !.person = <<person>>, !.faces = faces]
           path == PhotoPath(t, person.employee_id)
           saved == SavePhoto(uploads, path)
       IN IF faces = 0
          THEN /\ pc' = [pc EXCEPT ![t] = "done"]
               /\ loc' = [loc EXCEPT ![t] = Finished(l, MsgNoFace)]
               /\ uploads' = RouteCleanup(saved, path)
          ELSE /\ pc' = [pc EXCEPT ![t] = "a_insert"]
               /\ loc' = [loc EXCEPT ![t] = l]
               /\ uploads' = saved
    /\ UNCHANGED <<db, index, now, device>>

\* lines 371-375 and 186-203: the photo is saved, then loaded, and its faces are
\* located and encoded; a rejection is answered by lines 385-389
EnrollStart(t, person, faces) ==
    /\ pc[t] = "idle"
    /\ LET l == [InitLoc EXCEPT !.op = "enroll", !.employee_id = person.employee_id,
                                !.person = <<person>>, !.faces = faces]
           path == PhotoPath(t, person.employee_id)
           saved == SavePhoto(uploads, path)
       IN IF faces = 0
          THEN /\ pc' = [pc EXCEPT ![t] = "done"]
               /\ loc' = [loc EXCEPT ![t] = Finished(l, MsgNoFace)]
               /\ uploads' = RouteCleanup(saved, path)
          ELSE IF faces > 1
          THEN /\ pc' = [pc EXCEPT ![t] = "done"]
               /\ loc' = [loc EXCEPT ![t] = Finished(l, MsgMultipleFaces)]
               /\ uploads' = RouteCleanup(saved, path)
          ELSE /\ pc' = [pc EXCEPT ![t] = "a_insert"]
               /\ loc' = [loc EXCEPT ![t] = l]
               /\ uploads' = saved
    /\ UNCHANGED <<db, index, now, device>>

\* an upload that raises: photo.save fails with the file created (line 375, answered
\* by lines 391-400), or the saved file cannot be decoded (line 189, answered by
\* lines 217-218 and 385-389)
EnrollFault(t, person, fault) ==
    /\ pc[t] = "idle"
    /\ LET l == [InitLoc EXCEPT !.op = "enroll", !.employee_id = person.employee_id,
                                !.person = <<person>>]
           path == PhotoPath(t, person.employee_id)
       IN /\ loc' = [loc EXCEPT ![t] = Finished(l,
                        IF fault = "save" THEN MsgUnexpected ELSE MsgProcessingError)]
          /\ uploads' = RouteCleanup(SavePhoto(uploads, path), path)
    /\ pc' = [pc EXCEPT ![t] = "done"]
    /\ UNCHANGED <<db, index, now, device>>

\* line 205 (DatabaseManager.add_employee) and the test of line 207; a refusal is
\* answered by lines 215 and 385-389
EnrollInsert(t) ==
    /\ pc[t] = "a_insert"
    /\ LET p == loc[t].person[1]
           r == InsertEmployee(employees, p.employee_id, p.name, p.face_encoding)
       IN /\ employees' = r.employees
          /\ IF r.ok
             THEN /\ pc' = [pc EXCEPT ![t] = "l_read"]
                  /\ loc' = loc
             ELSE /\ pc' = [pc EXCEPT ![t] = "done"]
                  /\ loc' = [loc EXCEPT ![t] = Finished(loc[t], MsgIdExists)]
          /\ uploads' = IF r.ok THEN uploads
                        ELSE RouteCleanup(uploads, PhotoPath(t, p.employee_id))
    /\ UNCHANGED <<attendance, index, now, device>>

\* --------------------------------------------------------- delete_employee
\* lines 311-318: the transaction, then the test of rowcount
DeleteStart(t, employee_id) ==
    /\ pc[t] = "idle"
    /\ LET r == DeleteTxn(employees, attendance, employee_id)
           l == [InitLoc EXCEPT !.op = "delete", !.employee_id = employee_id]
       IN /\ employees' = r.employees
          /\ attendance' = r.attendance
          /\ IF r.rowcount > 0
             THEN /\ pc' = [pc EXCEPT ![t] = "l_read"]
                  /\ loc' = [loc EXCEPT ![t] = l]
             ELSE /\ pc' = [pc EXCEPT ![t] = "done"]
                  /\ loc' = [loc EXCEPT ![t] = Finished(l, MsgNotFound)]
    /\ UNCHANGED <<index, now, uploads, device>>

\* --------------------------------------------------------- recognize_faces
\* one face of the frame is matched; line 241 is the first read of the index
RecognizeStart(t, probe) ==
    /\ pc[t] = "idle"
    /\ LET l == [InitLoc EXCEPT !.op = "recognize", !.probe = probe]
       IN IF known_face_encodings = <<>>
          THEN /\ pc' = [pc EXCEPT ![t] = "done"]
               /\ loc' = [loc EXCEPT ![t] = Finished(l, MsgRecognized)]
          ELSE /\ pc' = [pc EXCEPT ![t] = "r_compare"]
               /\ loc' = [loc EXCEPT ![t] = l]
    /\ UNCHANGED <<db, index, now, uploads, device>>

\* line 246
RecognizeCompare(t) ==
    /\ pc[t] = "r_compare"
    /\ pc' = [pc EXCEPT ![t] = "r_distance"]
    /\ loc' = [loc EXCEPT ![t].matches = compare_faces(known_face_encodings, loc[t].probe)]
    /\ UNCHANGED <<db, index, now, uploads, device>>

\* lines 250-253; matches[best_match_index] raises IndexError past the end
RecognizeDistance(t) ==
    /\ pc[t] = "r_distance"
    /\ LET face_distances == face_distance(known_face_encodings, loc[t].probe)
           best == ArgMin(face_distances)
       IN IF face_distances = <<>>
          THEN /\ pc' = [pc EXCEPT ![t] = "done"]
               /\ loc' = [loc EXCEPT ![t] = Finished(loc[t], MsgRecognized)]
          ELSE IF best > Len(loc[t].matches)
          THEN /\ pc' = [pc EXCEPT ![t] = "done"]
               /\ loc' = [loc EXCEPT ![t] = Finished(loc[t], MsgRecognitionError)]
          ELSE IF loc[t].matches[best]
          THEN /\ pc' = [pc EXCEPT ![t] = "r_name"]
               /\ loc' = [loc EXCEPT ![t].best_match_index = best,
                                     ![t].matches = <<>>]
          ELSE /\ pc' = [pc EXCEPT ![t] = "done"]
               /\ loc' = [loc EXCEPT ![t] = Finished(loc[t], MsgRecognized)]
    /\ UNCHANGED <<db, index, now, uploads, device>>

\* line 254
RecognizeName(t) ==
    /\ pc[t] = "r_name"
    /\ IF loc[t].best_match_index > Len(known_face_names)
       THEN /\ pc' = [pc EXCEPT ![t] = "done"]
            /\ loc' = [loc EXCEPT ![t] = Finished(loc[t], MsgRecognitionError)]
       ELSE /\ pc' = [pc EXCEPT ![t] = "r_id"]
            /\ loc' = [loc EXCEPT ![t].name = known_face_names[loc[t].best_match_index]]
    /\ UNCHANGED <<db, index, now, uploads, device>>

\* recognize_faces checking the person in as soon as it has matched the face
RecognizeIdAutoMark(t) ==
    /\ pc[t] = "r_id"
    /\ pc' = [pc EXCEPT ![t] = "done"]
    /\ IF loc[t].best_match_index > Len(known_employee_ids)
       THEN /\ loc' = [loc EXCEPT ![t] = Finished(loc[t], MsgRecognitionError)]
            /\ attendance' = attendance
       ELSE /\ loc' = [loc EXCEPT ![t] =
                     [Finished(loc[t], MsgRecognized) EXCEPT
                         !.name = loc[t].name,
                         !.best_match_index = loc[t].best_match_index,
                         !.employee_id = known_employee_ids[loc[t].best_match_index]]]
            /\ attendance' = InsertAttendance(attendance,
                                 known_employee_ids[loc[t].best_match_index], now, Date(now))
    /\ UNCHANGED <<employees, index, now, uploads, device>>

\* line 255, then lines 257-260
RecognizeId(t) ==
    /\ pc[t] = "r_id"
    /\ pc' = [pc EXCEPT ![t] = "done"]
    /\ IF loc[t].best_match_index > Len(known_employee_ids)
       THEN loc' = [loc EXCEPT ![t] = Finished(loc[t], MsgRecognitionError)]
       ELSE loc' = [loc EXCEPT ![t] =
                [Finished(loc[t], MsgRecognized) EXCEPT
                    !.name = loc[t].name,
                    !.best_match_index = loc[t].best_match_index,
                    !.employee_id = known_employee_ids[loc[t].best_match_index]]]
    /\ UNCHANGED <<db, index, now, uploads, device>>

\* -------------------------------------------------------------- gen_frames
\* lines 440-447: the camera is assigned before isOpened() is tested
StreamStart(t, opens) ==
    /\ pc[t] = "idle"
    /\ LET l == [InitLoc EXCEPT !.op = "stream"]
       IN IF camera = NoCamera /\ ~opens
          THEN /\ camera' = CameraClosed
               /\ pc' = [pc EXCEPT ![t] = "done"]
               /\ loc' = [loc EXCEPT ![t] = Finished(l, MsgCameraFailed)]
          ELSE /\ camera' = IF camera = NoCamera THEN CameraOpened ELSE camera
               /\ pc' = [pc EXCEPT ![t] = "g_read"]
               /\ loc' = [loc EXCEPT ![t] = l]
    /\ UNCHANGED <<db, index, now, uploads, is_running>>

\* lines 450-455 and 222-241: a frame is read and recognize_faces gets as far as
\* its first read of the index; a camera that is not open reads nothing
StreamRead(t, success, frame) ==
    /\ pc[t] = "g_read"
    /\ IF camera # CameraOpened \/ ~success
       THEN /\ pc' = [pc EXCEPT ![t] = "done"]
            /\ loc' = [loc EXCEPT ![t] = Finished(loc[t], MsgCaptureFailed)]
       ELSE LET l == [loc[t] EXCEPT !.frame = frame, !.probe = frame.probe]
            IN IF known_face_encodings = <<>>
               THEN /\ pc' = [pc EXCEPT ![t] = "done"]
                    /\ loc' = [loc EXCEPT ![t] = Finished(l, MsgRecognized)]
               ELSE /\ pc' = [pc EXCEPT ![t] = "r_compare"]
                    /\ loc' = [loc EXCEPT ![t] = l]
    /\ UNCHANGED <<db, index, now, uploads, device>>

\* a loop that gives up on a frame whose recognition failed
StreamDrawFatal(t) ==
    /\ pc[t] = "done"
    /\ loc[t].op = "stream"
    /\ loc[t].result \in {MsgRecognized, MsgRecognitionError}
    /\ IF loc[t].result = MsgRecognitionError
       THEN /\ pc' = pc
            /\ loc' = [loc EXCEPT ![t].result = MsgCaptureFailed]
       ELSE /\ pc' = [pc EXCEPT ![t] = "g_yield"]
            /\ \E box \in RescaledRegion(loc[t].frame.location, loc[t].frame.width) :
                  loc' = [loc EXCEPT ![t].box = box]
    /\ UNCHANGED <<db, index, now, uploads, device>>

\* lines 457-465: recognize_faces has returned; after an exception it returned
\* empty lists and nothing is drawn
StreamDraw(t) ==
    /\ pc[t] = "done"
    /\ loc[t].op = "stream"
    /\ loc[t].result \in {MsgRecognized, MsgRecognitionError}
    /\ pc' = [pc EXCEPT ![t] = "g_yield"]
    /\ IF loc[t].result = MsgRecognitionError
       THEN loc' = [loc EXCEPT ![t].box = <<>>]
       ELSE \E box \in RescaledRegion(loc[t].frame.location, loc[t].frame.width) :
               loc' = [loc EXCEPT ![t].box = box]
    /\ UNCHANGED <<db, index, now, uploads, device>>

\* lines 467-471: the frame is encoded and yielded, and the loop goes round
StreamYield(t) ==
    /\ pc[t] = "g_yield"
    /\ pc' = [pc EXCEPT ![t] = "g_read"]
    /\ loc' = [loc EXCEPT ![t] = [InitLoc EXCEPT !.op = "stream"]]
    /\ UNCHANGED <<db, index, now, uploads, device>>

\* --------------------------------------------------------------- dashboard
\* line 294: get_attendance_summary on one connection
Summary(t) ==
    /\ pc[t] = "idle"
    /\ pc' = [pc EXCEPT ![t] = "done"]
    /\ loc' = [loc EXCEPT ![t] =
                [InitLoc EXCEPT !.op = "summary", !.today = Date(now),
                                !.summary = get_attendance_summary(attendance, employees, Date(now)),
                                !.result = MsgSummary]]
    /\ UNCHANGED <<db, index, now, uploads, device>>

\* ------------------------------------------------------------------ return
\* the handler has returned its response; gen_frames returns when the camera
\* cannot be opened or a frame cannot be read
Return(t) ==
    /\ pc[t] = "done"
    /\ loc[t].op = "stream" => loc[t].result \in {MsgCameraFailed, MsgCaptureFailed}
    /\ pc' = [pc EXCEPT ![t] = "idle"]
    /\ loc' = [loc EXCEPT ![t] = InitLoc]
    /\ UNCHANGED <<db, index, now, uploads, device>>

\* ---------------------------------------------------------- specifications
MarkSteps(t) == MarkReadTime(t) \/ MarkSelect(t) \/ MarkWrite(t)
LoadSteps(t) == LoadRead(t) \/ LoadEncodings(t) \/ LoadNames(t) \/ LoadIds(t)
StreamSteps(t) == StreamDraw(t) \/ StreamYield(t)
EnrollFaults(t) == \E p \in People, f \in Faults : EnrollFault(t, p, f)
RecognizeSteps(t) ==
    RecognizeCompare(t) \/ RecognizeDistance(t) \/ RecognizeName(t) \/ RecognizeId(t)

\* the whole program: every request, every input.  SpecLedger and SpecIndex below
\* take their steps from Next with fewer inputs, so each of their behaviours is a
\* behaviour of Spec.
Next ==
    \/ Tick
    \/ \E t \in Threads :
        \/ \E e \in EmployeeIds, ty \in AttendanceTypes : MarkStart(t, e, ty)
        \/ MarkSteps(t)
        \/ \E p \in People, n \in FaceCounts : EnrollStart(t, p, n)
        \/ EnrollInsert(t)
        \/ EnrollFaults(t)
        \/ LoadRaises(t)
        \/ \E e \in EmployeeIds : DeleteStart(t, e)
        \/ LoadSteps(t)
        \/ \E probe \in Probes : RecognizeStart(t, probe)
        \/ RecognizeSteps(t)
        \/ \E opens \in BOOLEAN : StreamStart(t, opens)
        \/ \E success \in BOOLEAN, frame \in Frames : StreamRead(t, success, frame)
        \/ StreamSteps(t)
        \/ Summary(t)
        \/ Return(t)

Spec == Init /\ [][Next]_vars

\* The ledger under concurrency: the requests that write the database, about one
\* employee_id (enrolled or not), with the clock running.  recognize_faces, which
\* writes nothing, is left to SpecIndex.
LedgerIds == {"E1"}
LedgerPeople == {p \in People : p.employee_id \in LedgerIds}

LedgerNext ==
    \/ Tick
    \/ \E t \in Threads :
        \/ \E e \in LedgerIds, ty \in AttendanceTypes : MarkStart(t, e, ty)
        \/ MarkSteps(t)
        \/ \E p \in LedgerPeople : EnrollStart(t, p, 1)
        \/ EnrollInsert(t)
        \/ \E e \in LedgerIds : DeleteStart(t, e)
        \/ LoadSteps(t)
        \/ Return(t)

SpecLedger == Init /\ [][LedgerNext]_vars

\* mark_attendance under concurrency: check-ins, check-outs and the removal of
\* the employee's rows, with the clock running.  mark_attendance reads and writes
\* the attendance table only, so enrolment is left to SpecLedger.
MarkNext ==
    \/ Tick
    \/ \E t \in Threads :
        \/ \E e \in LedgerIds, ty \in AttendanceTypes : MarkStart(t, e, ty)
        \/ MarkSteps(t)
        \/ \E e \in LedgerIds : DeleteStart(t, e)
        \/ Return(t)

SpecMark == Init /\ [][MarkNext]_vars

\* The identity store and the face index under concurrency: enrolment, removal and
\* recognition of every person.  mark_attendance, which neither reads nor writes
\* the employees table or the index, is left to SpecLedger.
IndexNext ==
    \E t \in Threads :
        \/ \E p \in People, n \in FaceCounts : EnrollStart(t, p, n)
        \/ EnrollInsert(t)
        \/ EnrollFaults(t)
        \/ \E e \in EmployeeIds : DeleteStart(t, e)
        \/ LoadSteps(t)
        \/ \E probe \in Probes : RecognizeStart(t, probe)
        \/ RecognizeSteps(t)
        \/ Return(t)

SpecIndex == Init /\ [][IndexNext]_vars

\* Enrolment with every way it ends: rejections of the image, a refused INSERT,
\* uploads that raise, a rebuild that raises, and success, for every person.
UploadNext ==
    \E t \in Threads :
        \/ \E p \in People, n \in FaceCounts : EnrollStart(t, p, n)
        \/ EnrollInsert(t)
        \/ EnrollFaults(t)
        \/ LoadSteps(t)
        \/ LoadRaises(t)
        \/ Return(t)

SpecUpload == Init /\ [][UploadNext]_vars

\* The video stream under concurrency: gen_frames on frames of one width, with
\* enrolment and removal of every person rebuilding the index meanwhile.
StreamFrames == {f \in Frames : f.width <= MaxWidth}

StreamNext ==
    \E t \in Threads :
        \/ \E opens \in BOOLEAN : StreamStart(t, opens)
        \/ \E success \in BOOLEAN, frame \in StreamFrames : StreamRead(t, success, frame)
        \/ RecognizeSteps(t)
        \/ StreamSteps(t)
        \/ \E p \in People : EnrollStart(t, p, 1)
        \/ EnrollInsert(t)
        \/ \E e \in EmployeeIds : DeleteStart(t, e)
        \/ LoadSteps(t)
        \/ Return(t)

SpecStream == Init /\ [][StreamNext]_vars

\* The rescaling alone: gen_frames on frames at and below MaxWidth, at twice
\* MaxWidth and at widths whose scale is not a power of two, with face locations
\* whose quotients are whole and not, nobody enrolled.
RescaleWidths == {640, MaxWidth, 1200, 2 * MaxWidth, 3000}
RescaleLocations == {<<10, 10, 50, 50>>, <<0, 384, 192, 75>>, <<3, 1000, 77, 5>>}
RescaleFrames == {[width |-> w, location |-> l, probe |-> 0] :
                     w \in RescaleWidths, l \in RescaleLocations}

RescaleNext ==
    \E t \in Threads :
        \/ \E opens \in BOOLEAN : StreamStart(t, opens)
        \/ \E success \in BOOLEAN, frame \in RescaleFrames : StreamRead(t, success, frame)
        \/ StreamSteps(t)
        \/ Return(t)

SpecRescale == Init /\ [][RescaleNext]_vars

\* The matcher alone: recognize_faces on every gallery of up to MaxGallery enrolled
\* people, nobody writing.  The encodings put probes at distance 0, below, at and
\* above the tolerance, and at equal distance from two people.
MatchEncodings == {0, 5, 7, 12}
MatchProbes == {0, 6}
MatchIds == <<"G1", "G2", "G3", "G4", "G5">>
MatchNames == <<"Gil", "Hal", "Ida", "Jon", "Kim">>

RECURSIVE MatchTable(_)
MatchTable(g) ==
    IF g = <<>> THEN <<>>
    ELSE InsertEmployee(MatchTable(SubSeq(g, 1, Len(g) - 1)),
                        MatchIds[Len(g)], MatchNames[Len(g)], g[Len(g)]).employees

Galleries == UNION {[1..n -> MatchEncodings] : n \in 0..MaxGallery}

\* the people of gallery g have enrolled, one after the other
InitMatch ==
    /\ \E g \in Galleries :
          /\ employees = MatchTable(g)
          /\ known_face_encodings = get_employee_encodings(MatchTable(g)).encodings
          /\ known_face_names = get_employee_encodings(MatchTable(g)).names
          /\ known_employee_ids = get_employee_encodings(MatchTable(g)).employee_ids
    /\ attendance = <<>>
    /\ now = 0
    /\ uploads = {}
    /\ camera = NoCamera
    /\ is_running = FALSE
    /\ pc = [t \in Threads |-> "idle"]
    /\ loc = [t \in Threads |-> InitLoc]

MatchNext ==
    \E t \in Threads :
        \/ \E probe \in MatchProbes : RecognizeStart(t, probe)
        \/ RecognizeSteps(t)
        \/ Return(t)

SpecMatch == InitMatch /\ [][MatchNext]_vars

\* The summary alone: get_attendance_summary on the day WindowDays, on every table
\* that holds up to MaxCount check-ins on each of the days 1..WindowDays.
DailyCounts == [1..WindowDays -> 0..MaxCount]

RECURSIVE SummaryTable(_, _)
SummaryTable(counts, day) ==
    IF day = 0 THEN <<>>
    ELSE SummaryTable(counts, day - 1) \o
         [k \in 1..counts[day] |->
             [employee_id |-> MatchIds[k], date |-> day,
              check_in_time |-> day * TicksPerDay, check_out_time |-> NoTime]]

InitSummary ==
    /\ \E counts \in DailyCounts : attendance = SummaryTable(counts, WindowDays)
    /\ employees = MatchTable([k \in 1..MaxCount |-> 0])
    /\ known_face_encodings = get_employee_encodings(employees).encodings
    /\ known_face_names = get_employee_encodings(employees).names
    /\ known_employee_ids = get_employee_encodings(employees).employee_ids
    /\ now = WindowDays * TicksPerDay
    /\ uploads = {}
    /\ camera = NoCamera
    /\ is_running = FALSE
    /\ pc = [t \in Threads |-> "idle"]
    /\ loc = [t \in Threads |-> InitLoc]

SummaryNext == \E t \in Threads : Summary(t) \/ Return(t)

SpecSummary == InitSummary /\ [][SummaryNext]_vars

\* ------------------------------------------------------------------ claims
Succeeded(t, attendance_type) ==
    /\ pc[t] = "done"
    /\ loc[t].op = "mark"
    /\ loc[t].attendance_type = attendance_type
    /\ loc[t].result = IF attendance_type = "check_in" THEN MsgCheckIn ELSE MsgCheckOut

\* C1: two mark_attendance calls of type check_in for the same employee_id and the
\* same day, both still open, never both return success.
C1_NotBothCheckIn ==
    \A t, u \in Threads :
        (t # u /\ loc[t].employee_id = loc[u].employee_id /\ loc[t].today = loc[u].today)
            => ~(Succeeded(t, "check_in") /\ Succeeded(u, "check_in"))

\* C2: the attendance table holds at most one row for each (employee_id, date).
C2_OneRecordPerDay ==
    \A i, j \in DOMAIN attendance :
        (attendance[i].employee_id = attendance[j].employee_id
            /\ attendance[i].date = attendance[j].date) => i = j

\* C3: every attendance row's employee_id is that of a row of the employees table.
C3_ReferentialIntegrity ==
    \A i \in DOMAIN attendance : attendance[i].employee_id \in EmployeeIdsOf(employees)

\* C4: no attendance row has a check_out_time earlier than its check_in_time (a
\* check-out stamped before the check-in is refused and leaves the row as it was).
C4_CheckOutNotBeforeCheckIn ==
    \A i \in DOMAIN attendance :
        attendance[i].check_out_time # NoTime
            => attendance[i].check_out_time >= attendance[i].check_in_time

RebuildInProgress(t) == pc[t] \in {"a_insert", "l_read", "l_encodings", "l_names", "l_ids"}

\* C5: whenever no enrolment or removal is in progress, the three lists of the
\* index are exactly what get_employee_encodings gives for the employees table.
C5_IndexMatchesStore ==
    (\A t \in Threads : ~RebuildInProgress(t))
        => <<known_face_encodings, known_face_names, known_employee_ids>>
            = LET s == get_employee_encodings(employees)
              IN <<s.encodings, s.names, s.employee_ids>>

\* C6: a recognition never fails on an index past the end of a list, and the name
\* and employee_id it returns are those of the person whose vector it matched.
C6_CoherentMatch ==
    \A t \in Threads :
        (pc[t] = "done" /\ loc[t].op = "recognize")
            => /\ loc[t].result # MsgRecognitionError
               /\ loc[t].employee_id # NoId
                    => \E p \in People :
                        /\ Distance(p.face_encoding, loc[t].probe) <= Tolerance
                        /\ p.employee_id = loc[t].employee_id
                        /\ p.name = loc[t].name

\* the employee_id is returned for some face by a recognition run now
Matchable(employee_id) ==
    \E probe \in Probes :
        Identify(known_face_encodings, known_face_names, known_employee_ids, probe).employee_id
            = employee_id

\* C7: once delete_employee has answered success for an employee_id, and with that
\* id not enrolled again and no rebuild of the index under way, no attendance row
\* is left for it and no recognition returns it.
C7_CascadeDelete ==
    \A t \in Threads :
        (/\ pc[t] = "done"
         /\ loc[t].op = "delete"
         /\ loc[t].result = MsgDeleted
         /\ loc[t].employee_id \notin EmployeeIdsOf(employees)
         /\ \A u \in Threads : ~RebuildInProgress(u))
            => /\ \A i \in DOMAIN attendance : attendance[i].employee_id # loc[t].employee_id
               /\ ~Matchable(loc[t].employee_id)

UniqueIds ==
    \A i, j \in DOMAIN employees :
        employees[i].employee_id = employees[j].employee_id => i = j

\* the INSERT of an enrolment: it succeeds exactly when the employee_id is not in
\* the table, and a refused one answers "Employee ID already exists" and leaves
\* the table and the index as they were
InsertRule(t) ==
    (pc[t] = "a_insert" /\ pc'[t] # "a_insert")
        => IF loc[t].employee_id \in EmployeeIdsOf(employees)
           THEN /\ pc'[t] = "done"
                /\ loc'[t].result = MsgIdExists
                /\ employees' = employees
                /\ index' = index
           ELSE /\ pc'[t] = "l_read"
                /\ loc[t].employee_id \in EmployeeIdsOf(employees')

\* C8: the employees table never holds two rows with one employee_id, and an
\* enrolment's INSERT succeeds exactly when its employee_id is absent (so of two
\* racing enrolments of a new id the first INSERT succeeds and the second fails).
C8_UniqueIdentity == []UniqueIds /\ [][\A t \in Threads : InsertRule(t)]_vars

\* a duplicate enrolment has been refused while the other caller's is still open
C8_Witness ==
    \E t, u \in Threads :
        /\ t # u
        /\ pc[t] = "done" /\ loc[t].op = "enroll" /\ loc[t].result = MsgIdExists
        /\ RebuildInProgress(u) /\ loc[u].op = "enroll"
        /\ loc[u].employee_id = loc[t].employee_id

\* C9: a check_out whose SELECT found no row for (employee_id, today) answers
\* "Must check-in first" and leaves the attendance table as it was.
C9_CheckOutWithoutRecord ==
    [][\A t \in Threads :
        (/\ pc[t] = "m_branch"
         /\ pc'[t] = "done"
         /\ loc[t].attendance_type = "check_out"
         /\ loc[t].existing_record = <<>>)
            => /\ loc'[t].result = MsgMustCheckIn
               /\ attendance' = attendance]_vars

\* a check_out was refused for want of a check-in
C9_Witness ==
    \E t \in Threads :
        /\ pc[t] = "done"
        /\ loc[t].op = "mark"
        /\ loc[t].attendance_type = "check_out"
        /\ loc[t].result = MsgMustCheckIn

Closed(r) == r.check_out_time # NoTime

\* C10: a row whose check_out_time is set never changes again while it exists
\* (only delete_employee removes rows), and a mark_attendance whose SELECT found
\* such a row answers "Attendance already recorded for today".
C10_CheckedOutIsTerminal ==
    [][/\ Len(attendance') >= Len(attendance)
            => \A i \in DOMAIN attendance :
                Closed(attendance[i]) => attendance'[i] = attendance[i]
       /\ \A t \in Threads :
            (/\ pc[t] = "m_branch"
             /\ pc'[t] = "done"
             /\ loc[t].existing_record # <<>>
             /\ Closed(loc[t].existing_record[1]))
                => loc'[t].result = MsgAlready]_vars

\* C11: a finished recognition names the enrolled person whose stored vector is
\* nearest to the probe exactly when that distance is at most the tolerance (a
\* distance equal to the tolerance is accepted); of several people at the same
\* smallest distance it names the one enrolled first; otherwise, and on an empty
\* gallery, it reports Unknown with no employee_id.
C11_NearestWithinTolerance ==
    \A t \in Threads :
        (pc[t] = "done" /\ loc[t].op = "recognize") =>
            LET d == [i \in DOMAIN employees |->
                         Distance(DecodeJson(employees[i].face_encoding), loc[t].probe)]
            IN /\ loc[t].result = MsgRecognized
               /\ IF \E i \in DOMAIN d : d[i] <= Tolerance
                  THEN \E i \in DOMAIN d :
                          /\ d[i] <= Tolerance
                          /\ \A j \in DOMAIN d : d[i] <= d[j] /\ (j < i => d[i] < d[j])
                          /\ loc[t].employee_id = employees[i].employee_id
                          /\ loc[t].name = employees[i].name
                  ELSE loc[t].employee_id = NoId /\ loc[t].name = Unknown

\* two people at the tolerance from the probe, the first of them named
C11_Witness ==
    \E t \in Threads :
        /\ pc[t] = "done" /\ loc[t].op = "recognize"
        /\ Len(employees) >= 2
        /\ \A i \in DOMAIN employees :
              Distance(DecodeJson(employees[i].face_encoding), loc[t].probe) >= Tolerance
        /\ Distance(DecodeJson(employees[1].face_encoding), loc[t].probe) = Tolerance
        /\ Distance(DecodeJson(employees[2].face_encoding), loc[t].probe) = Tolerance
        /\ loc[t].employee_id = employees[1].employee_id
\* C12: the avg_attendance of a summary is the number of check-ins of the last
\* WindowDays days (today included) divided by WindowDays, rounded to one decimal:
\* a day without check-ins counts as 0.
C12_AverageCountsEmptyDays ==
    \A t \in Threads :
        (pc[t] = "done" /\ loc[t].op = "summary") =>
            loc[t].summary.avg_attendance =
                RoundTenths(Cardinality({i \in DOMAIN attendance :
                                attendance[i].date > loc[t].today - WindowDays
                                /\ attendance[i].date <= loc[t].today}),
                            WindowDays)
\* C13: an enrolment whose image shows more than one face ends with the
\* multiple-faces message without reaching the INSERT or the rebuild, and the step
\* that handles it leaves both tables and the three index lists as they were.
C13_MultipleFacesRejected ==
    /\ [](\A t \in Threads :
            (loc[t].op = "enroll" /\ loc[t].faces > 1) =>
                (pc[t] = "done" /\ loc[t].result = MsgMultipleFaces))
    /\ [][\A t \in Threads :
            (loc'[t] # loc[t] /\ loc'[t].op = "enroll" /\ loc'[t].faces > 1) =>
                UNCHANGED <<db, index>>]_vars

\* a two-face image is rejected while somebody is enrolled and indexed
C13_Witness ==
    \E t \in Threads :
        /\ pc[t] = "done" /\ loc[t].op = "enroll" /\ loc[t].faces > 1
        /\ loc[t].result = MsgMultipleFaces
        /\ employees # <<>>
        /\ known_employee_ids # <<>>

Watching(t) == loc[t].op \in {"recognize", "stream"}

\* C15: no step of recognize_faces or of the gen_frames loop around it changes the
\* attendance table, the employees table or any of the three index lists, whoever
\* is recognised.
C15_RecognitionWritesNothing ==
    [][\A t \in Threads :
          ((Watching(t) \/ Watching(t)') /\ (pc'[t] # pc[t] \/ loc'[t] # loc[t]))
              => UNCHANGED <<db, index>>]_vars

\* a frame is about to be yielded with an enrolled person recognised in it
C15_Witness ==
    \E t \in Threads :
        /\ pc[t] = "g_yield"
        /\ loc[t].employee_id \in EmployeeIdsOf(employees)
        /\ loc[t].box # <<>>
        /\ attendance = <<>>

StreamEnded(t) ==
    /\ pc[t] = "done"
    /\ loc[t].op = "stream"
    /\ loc[t].result \in {MsgCameraFailed, MsgCaptureFailed}

C17_StopSignalEndsLoop ==
    \A t \in Threads :
        (loc[t].op = "stream" /\ pc[t] \in {"r_compare", "r_distance", "r_name", "r_id", "g_yield"})
            => is_running
\* C18: the box drawn for a face is its location in the coordinates of the frame
\* the camera delivered: the location itself when the frame was not downscaled,
\* twice the location when it was downscaled by 0.5, and in general the location
\* divided by the scale, to the pixel below.
C18_RegionsInFrameCoordinates ==
    \A t \in Threads :
        (pc[t] = "g_yield" /\ loc[t].box # <<>>) =>
            LET width == loc[t].frame.width
                location == loc[t].frame.location
                box == loc[t].box
            IN \A k \in DOMAIN location :
                  /\ width <= MaxWidth => box[k] = location[k]
                  /\ width = 2 * MaxWidth => box[k] = 2 * location[k]
                  /\ width > MaxWidth =>
                        /\ box[k] * MaxWidth <= location[k] * width
                        /\ location[k] * width <= (box[k] + 1) * MaxWidth

\* the location (10, 10, 50, 50) found at scale 0.5 is drawn as (20, 20, 100, 100)
C18_Witness ==
    \E t \in Threads :
        /\ pc[t] = "g_yield"
        /\ loc[t].frame.width = 2 * MaxWidth
        /\ loc[t].frame.location = <<10, 10, 50, 50>>
        /\ loc[t].box = <<20, 20, 100, 100>>
\* C19: a check_in whose SELECT found an open record for the employee and the day
\* is answered "Attendance already recorded for today" and changes no row, so the
\* record stays open; a check_out whose SELECT found the open record is answered
\* with success and sets check_out_time on the employee's rows of that day.
C19_RepeatCheckInRejected ==
    [][\A t \in Threads :
        (/\ pc[t] = "m_branch"
         /\ pc'[t] = "done"
         /\ loc[t].existing_record # <<>>
         /\ loc[t].existing_record[1].check_out_time = NoTime)
            => IF loc[t].attendance_type = "check_in"
               THEN /\ loc'[t].result = MsgAlready
                    /\ attendance' = attendance
               ELSE /\ loc'[t].result = MsgCheckOut
                    /\ Len(attendance') = Len(attendance)
                    /\ \A i \in DOMAIN attendance :
                          IF attendance[i].employee_id = loc[t].employee_id
                                /\ attendance[i].date = loc[t].today
                          THEN attendance'[i] = [attendance[i] EXCEPT
                                                    !.check_out_time = loc[t].current_time]
                          ELSE attendance'[i] = attendance[i]]_vars

\* a check_in was refused on the open record and a check_out then closed it
C19_Witness ==
    \E t, u \in Threads :
        /\ pc[t] = "done" /\ loc[t].op = "mark"
        /\ loc[t].attendance_type = "check_in" /\ loc[t].result = MsgAlready
        /\ pc[u] = "done" /\ loc[u].op = "mark"
        /\ loc[u].attendance_type = "check_out" /\ loc[u].result = MsgCheckOut
        /\ loc[u].employee_id = loc[t].employee_id /\ loc[u].today = loc[t].today
        /\ Len(attendance) = 1
        /\ attendance[1].check_out_time # NoTime

\* C20: in every state the summary of the day has present_today at most
\* total_employees, so absent_today is not negative.
C20_PresentAtMostTotal ==
    LET summary == get_attendance_summary(attendance, employees, Date(now))
    IN /\ summary.present_today <= summary.total_employees
       /\ summary.absent_today >= 0
\* C21: a delete_employee request for an employee_id that is not in the employees
\* table is answered "Employee not found." and its step leaves the employees
\* table, the attendance table and the three index lists as they were.
C21_DeleteUnknownChangesNothing ==
    [][\A t \in Threads :
        (/\ pc[t] = "idle"
         /\ pc'[t] # "idle"
         /\ loc'[t].op = "delete"
         /\ loc'[t].employee_id \notin EmployeeIdsOf(employees))
            => /\ pc'[t] = "done"
               /\ loc'[t].result = MsgNotFound
               /\ UNCHANGED <<db, index>>]_vars

\* C22: the date of every attendance row is the calendar day of its
\* check_in_time, and of its check_out_time once that is set.
C22_DateIsDayOfTimestamps ==
    \A i \in DOMAIN attendance :
        /\ attendance[i].date = Date(attendance[i].check_in_time)
        /\ attendance[i].check_out_time # NoTime =>
              attendance[i].date = Date(attendance[i].check_out_time)
====
